---- MODULE Spec2Model ----
(***************************************************************************)
(* Model of the caption pipeline of ProyectoImageCaptioning:               *)
(*   src/src/data_processing.py  tokenize, untokenize,                     *)
(*                               create_lookup_tables,                     *)
(*                               load_image_captions_from_json             *)
(*   src/src/train_functions.py  train_step, val_step, t_step              *)
(* A Python str is a sequence of one-character strings, a list a sequence, *)
(* a dict a function whose DOMAIN is its key set.                          *)
(***************************************************************************)
EXTENDS Integers, Sequences, FiniteSets, TLC

VARIABLES
    tk_pc,          \* tokenizer round trip: "start", "tokenized", "untokenized"
    tk_in,          \* the string handed to tokenize
    tk_text,        \* the string after the last call
    vc_pc,          \* create_lookup_tables: "start", "done"
    words,          \* its argument
    vocab_to_int,   \* first returned dict
    int_to_vocab,   \* second returned dict
    ld_pc,          \* load_image_captions_from_json: "open", "loop", "done", "error"
    stored,         \* the JSON document at path: the caption lists in key order
    captions_dict,  \* the loaded dict, its values in key order
    word_list,      \* the running token list
    ld_i,           \* the image the outer loop is at
    ld_j,           \* the position the inner list iterator is at
    ld_ret,         \* <<>> while nothing is returned, else <<captions_dict, word_list>>
    fn,             \* the function of train_functions.py that is called
    pc,             \* the statement it is at
    n_batches,      \* the number of batches the loader yields
    fetched,        \* the number of batches taken from the loader so far
    epoch,          \* the epoch argument
    mode,           \* the mode the model is in: "unset", "train", "eval"
    events,         \* the calls made on model, loss and optimizer, in order
    writer,         \* the entries written to the metric sink, in order
    batch_targets,  \* targets as the loader yielded them: batch x sequence
    targets,        \* the local targets after the permute: sequence x batch
    dec_input,      \* the second argument of the last model(...) call of the pass
    loss_target,    \* the second argument of the last loss(...) call of the pass
    predictions,    \* the local list of t_step
    tr_ret          \* "running" until the call returns, then the returned value

tokVars == <<tk_pc, tk_in, tk_text>>
vocVars == <<vc_pc, words, vocab_to_int, int_to_vocab>>

loadVars == <<ld_pc, stored, captions_dict, word_list, ld_i, ld_j, ld_ret>>

trainVars == <<fn, pc, n_batches, fetched, epoch, mode, events, writer,
               batch_targets, targets, dec_input, loss_target, predictions, tr_ret>>

vars == <<tokVars, vocVars, loadVars, trainVars>>

(***************************************************************************)
(* Bounds                                                                  *)
(***************************************************************************)
\* longest input string over the full alphabet (all ten marks)
MaxLen == 3
\* longest input string over the hyphen alphabet (runs of hyphens)
MaxRun == 4
\* longest token list handed to create_lookup_tables
MaxWords == 4
\* most images of a stored caption document
MaxImages == 2
\* most captions of a stored caption document, over all its images
MaxCaptions == 3
\* most batches a loader yields
MaxBatches == 2
\* largest epoch argument
MaxEpoch == 1
\* most samples of a batch
MaxBatchSize == 2
\* longest target sequence of a batch
MaxSeqLen == 2
\* most items model.genera_captions returns
MaxGenerated == 2

(***************************************************************************)
(* Strings                                                                 *)
(***************************************************************************)
\* all sequences over S of length 0..n
SeqsUpTo(S, n) == UNION {[1..k -> S] : k \in 0..n}

\* Python str.replace(old, new): leftmost non-overlapping occurrences, scanning
\* left to right from position i
RECURSIVE ReplaceFrom(_, _, _, _)
ReplaceFrom(text, old, new, i) ==
    IF i > Len(text) THEN <<>>
    ELSE IF /\ text[i] = old[1]
            /\ i + Len(old) - 1 <= Len(text)
            /\ SubSeq(text, i, i + Len(old) - 1) = old
         THEN new \o ReplaceFrom(text, old, new, i + Len(old))
         ELSE <<text[i]>> \o ReplaceFrom(text, old, new, i + 1)

Replace(text, old, new) == ReplaceFrom(text, old, new, 1)

(***************************************************************************)
(* tokenize / untokenize                                                   *)
(***************************************************************************)
TagPeriod      == <<" ", "<", "P", "E", "R", "I", "O", "D", ">", " ">>
TagComma       == <<" ", "<", "C", "O", "M", "M", "A", ">", " ">>
TagQuotation   == <<" ", "<", "Q", "U", "O", "T", "A", "T", "I", "O", "N", "_",
                    "M", "A", "R", "K", ">", " ">>
TagSemicolon   == <<" ", "<", "S", "E", "M", "I", "C", "O", "L", "O", "N", ">", " ">>
TagExclamation == <<" ", "<", "E", "X", "C", "L", "A", "M", "A", "T", "I", "O", "N",
                    "_", "M", "A", "R", "K", ">", " ">>
TagQuestion    == <<" ", "<", "Q", "U", "E", "S", "T", "I", "O", "N", "_",
                    "M", "A", "R", "K", ">", " ">>
TagLeftParen   == <<" ", "<", "L", "E", "F", "T", "_", "P", "A", "R", "E", "N", ">", " ">>
TagRightParen  == <<" ", "<", "R", "I", "G", "H", "T", "_", "P", "A", "R", "E", "N",
                    ">", " ">>
TagHyphens     == <<" ", "<", "H", "Y", "P", "H", "E", "N", "S", ">", " ">>
TagColon       == <<" ", "<", "C", "O", "L", "O", "N", ">", " ">>

\* the replacement table of tokenize, in the order of its statements
TokenTable ==
    << <<(<<".">>),      TagPeriod>>,
       <<(<<",">>),      TagComma>>,
       <<(<<"\"">>),     TagQuotation>>,
       <<(<<";">>),      TagSemicolon>>,
       <<(<<"!">>),      TagExclamation>>,
       <<(<<"?">>),      TagQuestion>>,
       <<(<<"(">>),      TagLeftParen>>,
       <<(<<")">>),      TagRightParen>>,
       <<(<<"-", "-">>), TagHyphens>>,
       <<(<<"?">>),      TagQuestion>>,
       <<(<<":">>),      TagColon>> >>

\* text after statements k..Len(table) of a replacement table have run
RECURSIVE ApplyTable(_, _, _)
ApplyTable(text, table, k) ==
    IF k > Len(table) THEN text
    ELSE ApplyTable(Replace(text, table[k][1], table[k][2]), table, k + 1)

tokenize(text) == ApplyTable(text, TokenTable, 1)

\* the replacement table of untokenize: the same rows, tag first
UntokenTable == [k \in 1..Len(TokenTable) |-> <<TokenTable[k][2], TokenTable[k][1]>>]

\* a variant that restores each mark from the tag without its padding spaces
untokenize_unpadded(text) ==
    ApplyTable(text,
               [k \in 1..Len(TokenTable) |->
                   <<SubSeq(TokenTable[k][2], 2, Len(TokenTable[k][2]) - 1),
                     TokenTable[k][1]>>],
               1)

untokenize(text) == ApplyTable(text, UntokenTable, 1)

(***************************************************************************)
(* Tokenizer round trip: s -> tokenize(s) -> untokenize(tokenize(s))       *)
(***************************************************************************)
\* plain-word letter, space and the characters of the ten marks
Alphabet == {"a", " ", ".", ",", "\"", ";", "!", "?", "(", ")", "-", ":"}
HyphenAlphabet == {"a", " ", "-", "."}

TokInputs == SeqsUpTo(Alphabet, MaxLen) \cup SeqsUpTo(HyphenAlphabet, MaxRun)

TokIdle == tk_pc = "off" /\ tk_in = <<>> /\ tk_text = <<>>
VocIdle == vc_pc = "off" /\ words = <<>> /\ vocab_to_int = <<>> /\ int_to_vocab = <<>>
LoadIdle ==
    /\ ld_pc = "off" /\ stored = <<>> /\ captions_dict = <<>> /\ word_list = <<>>
    /\ ld_i = 0 /\ ld_j = 0 /\ ld_ret = <<>>
TrainIdle ==
    /\ fn = "off" /\ pc = "off" /\ n_batches = 0 /\ fetched = 0 /\ epoch = 0
    /\ mode = "unset" /\ events = <<>> /\ writer = <<>> /\ batch_targets = <<>>
    /\ targets = <<>> /\ dec_input = <<>> /\ loss_target = <<>>
    /\ predictions = <<>> /\ tr_ret = "running"

TokInit ==
    /\ tk_pc = "start"
    /\ tk_in \in TokInputs
    /\ tk_text = tk_in
    /\ VocIdle
    /\ LoadIdle
    /\ TrainIdle

CallTokenize ==
    /\ tk_pc = "start"
    /\ tk_text' = tokenize(tk_text)
    /\ tk_pc' = "tokenized"
    /\ UNCHANGED <<tk_in, vocVars, loadVars, trainVars>>

CallUntokenize ==
    /\ tk_pc = "tokenized"
    /\ tk_text' = untokenize(tk_text)
    /\ tk_pc' = "untokenized"
    /\ UNCHANGED <<tk_in, vocVars, loadVars, trainVars>>

TokNext == CallTokenize \/ CallUntokenize

TokSpec == TokInit /\ [][TokNext]_vars

\* C1: for every string of plain words, spaces and the ten marks,
\* untokenize(tokenize(s)) = s
RoundTrip == tk_pc = "untokenized" => tk_text = tk_in

\* a run of three hyphens next to another mark has gone through both calls
RoundTripWitness ==
    /\ tk_pc = "untokenized"
    /\ tk_in = <<"-", "-", "-", ".">>
    /\ tk_text = tk_in

(***************************************************************************)
(* create_lookup_tables                                                    *)
(***************************************************************************)
PAD == "<PAD>"

Range(seq) == {seq[i] : i \in DOMAIN seq}

\* d[k] = v on a Python dict
DictSet(d, k, v) == [x \in (DOMAIN d) \cup {k} |-> IF x = k THEN v ELSE d[x]]

\* Counter(words)[w]
Count(ws, w) == Cardinality({i \in DOMAIN ws : ws[i] = w})

\* the keys of Counter(words) in iteration order: first occurrence
RECURSIVE CounterKeys(_)
CounterKeys(ws) ==
    IF ws = <<>> THEN <<>>
    ELSE LET front == CounterKeys(SubSeq(ws, 1, Len(ws) - 1))
             last  == ws[Len(ws)]
         IN  IF last \in Range(front) THEN front ELSE Append(front, last)

\* insert w behind every key whose count is at least w's: keeps the sort stable
RECURSIVE InsertByCount(_, _, _)
InsertByCount(sorted, w, ws) ==
    IF sorted = <<>> THEN <<w>>
    ELSE IF Count(ws, Head(sorted)) >= Count(ws, w)
         THEN <<Head(sorted)>> \o InsertByCount(Tail(sorted), w, ws)
         ELSE <<w>> \o sorted

\* sorted(keys, key=word_counts.get, reverse=True) over keys[1..n]
RECURSIVE SortedPrefix(_, _, _)
SortedPrefix(keys, n, ws) ==
    IF n = 0 THEN <<>>
    ELSE InsertByCount(SortedPrefix(keys, n - 1, ws), keys[n], ws)

sorted_vocab(ws) == SortedPrefix(CounterKeys(ws), Len(CounterKeys(ws)), ws)

\* a variant that numbers the words from 1
EnumerateFromOne(seq) == [ii \in 1..Len(seq) |-> seq[ii]]

\* {ii: word for ii, word in enumerate(seq)}
Enumerate(seq) == [ii \in 0..(Len(seq) - 1) |-> seq[ii + 1]]

\* {word: ii for ii, word in d.items()}
Invert(d) == [w \in {d[ii] : ii \in DOMAIN d} |-> CHOOSE ii \in DOMAIN d : d[ii] = w]

\* len(d)
DictLen(d) == Cardinality(DOMAIN d)

VocInputs == SeqsUpTo({"a", "cat", "<s>", PAD}, MaxWords)

VocInit ==
    /\ vc_pc = "start"
    /\ words \in VocInputs
    /\ vocab_to_int = <<>>
    /\ int_to_vocab = <<>>
    /\ TokIdle
    /\ LoadIdle
    /\ TrainIdle

create_lookup_tables ==
    /\ vc_pc = "start"
    /\ LET i2v == Enumerate(sorted_vocab(words))
           v2i == Invert(i2v)
       IN  /\ vocab_to_int' = DictSet(v2i, PAD, DictLen(v2i))
           /\ int_to_vocab' = DictSet(i2v, DictLen(i2v), PAD)
    /\ vc_pc' = "done"
    /\ UNCHANGED <<words, tokVars, loadVars, trainVars>>

VocNext == create_lookup_tables

VocSpec == VocInit /\ [][VocNext]_vars

\* C2: for a non-empty token list the indices of word_to_index are exactly
\* 0..N, without duplicates or gaps, N the number of distinct tokens, and
\* "<PAD>" is at index N
DenseIndices ==
    (vc_pc = "done" /\ words # <<>>) =>
        LET N == Cardinality(Range(words))
        IN  /\ {vocab_to_int[w] : w \in DOMAIN vocab_to_int} = 0..N
            /\ Cardinality(DOMAIN vocab_to_int) = N + 1
            /\ PAD \in DOMAIN vocab_to_int
            /\ vocab_to_int[PAD] = N

\* C3: index_to_word[word_to_index[w]] = w for every word w of the input
InverseOnInput ==
    vc_pc = "done" =>
        \A w \in Range(words) :
            /\ w \in DOMAIN vocab_to_int
            /\ vocab_to_int[w] \in DOMAIN int_to_vocab
            /\ int_to_vocab[vocab_to_int[w]] = w

\* tables built from a list with repeated and distinct words, "<PAD>" among them
InverseOnInputWitness ==
    /\ vc_pc = "done"
    /\ words = <<"cat", PAD, "a", "a">>
    /\ int_to_vocab[vocab_to_int["cat"]] = "cat"
    /\ int_to_vocab[vocab_to_int[PAD]] = PAD

\* position of the first occurrence of w in ws
FirstPos(ws, w) == CHOOSE i \in DOMAIN ws : ws[i] = w /\ \A j \in 1..(i - 1) : ws[j] # w

\* C5: of two distinct tokens the more frequent one gets the lower index, and
\* of two equally frequent ones the one that occurs first
FrequencyOrder ==
    vc_pc = "done" =>
        \A a, b \in Range(words) :
            (/\ a # b
             /\ \/ Count(words, a) > Count(words, b)
                \/ /\ Count(words, a) = Count(words, b)
                   /\ FirstPos(words, a) < FirstPos(words, b))
            => vocab_to_int[a] < vocab_to_int[b]

(***************************************************************************)
(* load_image_captions_from_json                                           *)
(***************************************************************************)
UpperCase == <<"A", "B", "C", "D", "E", "F", "G", "H", "I", "J", "K", "L", "M",
               "N", "O", "P", "Q", "R", "S", "T", "U", "V", "W", "X", "Y", "Z">>
LowerCase == <<"a", "b", "c", "d", "e", "f", "g", "h", "i", "j", "k", "l", "m",
               "n", "o", "p", "q", "r", "s", "t", "u", "v", "w", "x", "y", "z">>

\* str.lower()
lower(text) ==
    [k \in DOMAIN text |->
        IF \E u \in DOMAIN UpperCase : UpperCase[u] = text[k]
        THEN LowerCase[CHOOSE u \in DOMAIN UpperCase : UpperCase[u] = text[k]]
        ELSE text[k]]

\* a variant that removes the double quotes only
StripDoubleQuotesOnly(caption) == Replace(lower(caption), <<"\"">>, <<>>)

\* caption.lower().replace('"', '').replace("'", '')
StripQuotes(caption) == Replace(Replace(lower(caption), <<"\"">>, <<>>), <<"'">>, <<>>)

\* str.split(): the maximal runs without whitespace, from position i on, cur the
\* run being read
RECURSIVE SplitFrom(_, _, _)
SplitFrom(text, i, cur) ==
    IF i > Len(text) THEN (IF cur = <<>> THEN <<>> ELSE <<cur>>)
    ELSE IF text[i] = " "
         THEN (IF cur = <<>> THEN <<>> ELSE <<cur>>) \o SplitFrom(text, i + 1, <<>>)
         ELSE SplitFrom(text, i + 1, Append(cur, text[i]))

Split(text) == SplitFrom(text, 1, <<>>)

\* " ".join(parts)
RECURSIVE JoinSpace(_)
JoinSpace(parts) ==
    IF parts = <<>> THEN <<>>
    ELSE IF Len(parts) = 1 THEN parts[1]
    ELSE parts[1] \o <<" ">> \o JoinSpace(Tail(parts))

\* str.strip()
RECURSIVE Strip(_)
Strip(text) ==
    IF text = <<>> THEN text
    ELSE IF Head(text) = " " THEN Strip(Tail(text))
    ELSE IF text[Len(text)] = " " THEN Strip(SubSeq(text, 1, Len(text) - 1))
    ELSE text

\* caption_processed[-1] on the quote-stripped caption raises IndexError
RaisesIndexError(caption) == StripQuotes(caption) = <<>>

\* caption_processed of a caption that does not raise
Processed(caption) ==
    LET stripped == StripQuotes(caption)
        noperiod == IF stripped[Len(stripped)] = "."
                    THEN SubSeq(stripped, 1, Len(stripped) - 1)
                    ELSE stripped
        collapsed == JoinSpace(Split(Strip(tokenize(noperiod))))
    IN  <<"<", "s", ">", " ">> \o collapsed \o <<" ", "<", "/", "s", ">">>

\* list.index(x): the first position holding x
ListIndex(list, x) == CHOOSE k \in DOMAIN list : list[k] = x /\ \A m \in 1..(k - 1) : list[m] # x

RawCaptions ==
    { <<"A", " ", "c", "a", "t", ".">>,
      <<"A", " ", "D", "O", "G", "!">>,
      <<"a">>,
      <<"<", "s", ">", " ", "a", " ", "<", "/", "s", ">">>,
      <<>>,
      <<"\"", "'">> }

\* the documents of at most n images and at most c captions in all
RECURSIVE StoredDocs(_, _)
StoredDocs(n, c) ==
    IF n = 0 THEN {<<>>}
    ELSE {<<>>} \cup
         UNION { { <<list>> \o rest : rest \in StoredDocs(n - 1, c - Len(list)) } :
                 list \in SeqsUpTo(RawCaptions, c) }

LoadInit ==
    /\ ld_pc = "open"
    /\ stored \in StoredDocs(MaxImages, MaxCaptions)
    /\ captions_dict = <<>>
    /\ word_list = <<>>
    /\ ld_i = 0
    /\ ld_j = 0
    /\ ld_ret = <<>>
    /\ TokIdle
    /\ VocIdle
    /\ TrainIdle

\* captions_dict = json.load(json_file); the outer loop takes its first value
LoadJson ==
    /\ ld_pc = "open"
    /\ captions_dict' = stored
    /\ ld_i' = 1
    /\ ld_j' = 1
    /\ ld_pc' = "loop"
    /\ UNCHANGED <<stored, word_list, ld_ret, tokVars, vocVars, trainVars>>

\* one pass of the inner loop body that runs to its end
ProcessCaption ==
    /\ ld_pc = "loop"
    /\ ld_i <= Len(captions_dict)
    /\ ld_j <= Len(captions_dict[ld_i])
    /\ LET captions == captions_dict[ld_i]
           caption  == captions[ld_j]
       IN  /\ ~RaisesIndexError(caption)
           /\ word_list' = word_list \o Split(Processed(caption))
           /\ captions_dict' =
                  [captions_dict EXCEPT ![ld_i][ListIndex(captions, caption)] =
                                            Processed(caption)]
    /\ ld_j' = ld_j + 1
    /\ UNCHANGED <<ld_pc, stored, ld_i, ld_ret, tokVars, vocVars, trainVars>>

\* one pass of the inner loop body that raises at the trailing-period check
ProcessCaptionRaises ==
    /\ ld_pc = "loop"
    /\ ld_i <= Len(captions_dict)
    /\ ld_j <= Len(captions_dict[ld_i])
    /\ RaisesIndexError(captions_dict[ld_i][ld_j])
    /\ ld_pc' = "error"
    /\ UNCHANGED <<stored, captions_dict, word_list, ld_i, ld_j, ld_ret, tokVars, vocVars, trainVars>>

\* the inner iterator is exhausted: the outer loop takes the next value
NextImage ==
    /\ ld_pc = "loop"
    /\ ld_i <= Len(captions_dict)
    /\ ld_j > Len(captions_dict[ld_i])
    /\ ld_i' = ld_i + 1
    /\ ld_j' = 1
    /\ UNCHANGED <<ld_pc, stored, captions_dict, word_list, ld_ret, tokVars, vocVars, trainVars>>

\* return captions_dict, word_list
LoadReturn ==
    /\ ld_pc = "loop"
    /\ ld_i > Len(captions_dict)
    /\ ld_ret' = <<captions_dict, word_list>>
    /\ ld_pc' = "done"
    /\ UNCHANGED <<stored, captions_dict, word_list, ld_i, ld_j, tokVars, vocVars, trainVars>>

LoadNext == LoadJson \/ ProcessCaption \/ ProcessCaptionRaises \/ NextImage \/ LoadReturn

LoadSpec == LoadInit /\ [][LoadNext]_vars

\* the whitespace-split tokens of the normalized captions of lists[1..n], in
\* list order then caption order
RECURSIVE TokensOfList(_, _)
TokensOfList(list, n) ==
    IF n = 0 THEN <<>> ELSE TokensOfList(list, n - 1) \o Split(Processed(list[n]))

RECURSIVE TokensOfDoc(_, _)
TokensOfDoc(doc, n) ==
    IF n = 0 THEN <<>> ELSE TokensOfDoc(doc, n - 1) \o TokensOfList(doc[n], Len(doc[n]))

\* C4: the returned mapping holds, at every position of every list, the
\* normalized form of the raw caption stored at that position, and the
\* returned token list is the concatenation of their tokens in image order
\* then caption order
NormalizedInPlace ==
    ld_pc = "done" =>
        /\ ld_ret[1] = [i \in DOMAIN stored |->
                           [j \in DOMAIN stored[i] |-> Processed(stored[i][j])]]
        /\ ld_ret[2] = TokensOfDoc(stored, Len(stored))

\* a caption that is empty once its quote characters are removed
QuoteOnly(caption) == \A k \in DOMAIN caption : caption[k] \in {"\"", "'"}
NoneQuoteOnlyBefore(i, j) ==
    \A a \in DOMAIN stored : \A b \in DOMAIN stored[a] :
        (a < i \/ (a = i /\ b < j)) => ~QuoteOnly(stored[a][b])
\* C10: the call returns when no caption is empty after lowercasing and quote
\* removal, and raises, returning nothing, at the first caption that is
RaisesOnEmptyOnly ==
    /\ ld_pc = "error" =>
          /\ ld_ret = <<>>
          /\ QuoteOnly(stored[ld_i][ld_j])
          /\ NoneQuoteOnlyBefore(ld_i, ld_j)
    /\ ld_pc = "done" =>
          /\ ld_ret = <<captions_dict, word_list>>
          /\ NoneQuoteOnlyBefore(Len(stored) + 1, 1)
    /\ ld_pc = "loop" =>
          /\ ld_ret = <<>>
          /\ NoneQuoteOnlyBefore(ld_i, ld_j)
          /\ ld_i <= Len(captions_dict) =>
                \A k \in DOMAIN stored[ld_i] :
                    k >= ld_j => captions_dict[ld_i][k] = stored[ld_i][k]

\* the call raised at a quote-only caption after it had processed another one
RaisesOnEmptyOnlyWitness ==
    /\ ld_pc = "error"
    /\ word_list # <<>>
    /\ stored[ld_i][ld_j] = <<"\"", "'">>
    /\ ld_ret = <<>>

(***************************************************************************)
(* train_step, val_step, t_step                                            *)
(***************************************************************************)
TokenIds == {0, 1}

\* the target tensors a loader can yield: batch x sequence
Batches ==
    UNION { [1..B -> [1..L -> TokenIds]] : B \in 1..MaxBatchSize, L \in 1..MaxSeqLen }

\* targets.permute(1, 0)
Permute(t) == [l \in 1..Len(t[1]) |-> [b \in 1..Len(t) |-> t[b][l]]]

\* x[:-1]
ButLast(x) == SubSeq(x, 1, Len(x) - 1)

\* x.reshape(-1) of a two-dimensional x: its rows one after the other
RECURSIVE Flatten(_)
Flatten(x) == IF x = <<>> THEN <<>> ELSE Head(x) \o Flatten(Tail(x))

\* a variant that drops the first step before flattening
targets_reshaped_shifted(t) == Flatten(Tail(t))

\* targets_reshaped = targets.reshape(-1)
targets_reshaped(t) == Flatten(t)

otherVars == <<tokVars, vocVars, loadVars>>

\* a pass of the loop body ends: its locals are rebound by the next pass before
\* anything reads them, and are not kept
PassEnds ==
    /\ batch_targets' = <<>>
    /\ targets' = <<>>
    /\ dec_input' = <<>>
    /\ loss_target' = <<>>

TrainInit ==
    /\ fn \in {"train_step", "val_step", "t_step"}
    /\ pc = "start"
    /\ n_batches \in 0..MaxBatches
    /\ epoch \in 0..MaxEpoch
    /\ fetched = 0
    /\ mode = "unset"
    /\ events = <<>>
    /\ writer = <<>>
    /\ batch_targets = <<>>
    /\ targets = <<>>
    /\ dec_input = <<>>
    /\ loss_target = <<>>
    /\ predictions = <<>>
    /\ tr_ret = "running"
    /\ TokIdle
    /\ VocIdle
    /\ LoadIdle

\* ---- train_step ----
\* model.to(device); model.train()
TrainEnter ==
    /\ fn = "train_step" /\ pc = "start"
    /\ mode' = "train"
    /\ pc' = "iter"
    /\ UNCHANGED <<fn, n_batches, fetched, epoch, events, writer, batch_targets,
                   targets, dec_input, loss_target, predictions, tr_ret, otherVars>>

\* the loop takes the next batch; to(device), float(), long(), permute(1, 0)
TrainFetch ==
    /\ fn = "train_step" /\ pc = "iter"
    /\ fetched < n_batches
    /\ \E batch \in Batches :
          /\ batch_targets' = batch
          /\ targets' = Permute(batch)
    /\ fetched' = fetched + 1
    /\ dec_input' = <<>>
    /\ loss_target' = <<>>
    /\ pc' = "zero_grad"
    /\ UNCHANGED <<fn, n_batches, epoch, mode, events, writer, predictions, tr_ret,
                   otherVars>>

\* the loader is exhausted: the function ends and returns None
TrainExhausted ==
    /\ fn = "train_step" /\ pc = "iter"
    /\ fetched = n_batches
    /\ tr_ret' = "None"
    /\ pc' = "done"
    /\ UNCHANGED <<fn, n_batches, fetched, epoch, mode, events, writer, batch_targets,
                   targets, dec_input, loss_target, predictions, otherVars>>

\* optimizer.zero_grad()
TrainZeroGrad ==
    /\ fn = "train_step" /\ pc = "zero_grad"
    /\ events' = Append(events, <<"zero_grad", fetched>>)
    /\ pc' = "forward"
    /\ UNCHANGED <<fn, n_batches, fetched, epoch, mode, writer, batch_targets,
                   targets, dec_input, loss_target, predictions, tr_ret, otherVars>>

\* outputs = model(inputs, targets[:-1])
TrainForward ==
    /\ fn = "train_step" /\ pc = "forward"
    /\ dec_input' = ButLast(targets)
    /\ events' = Append(events, <<"forward", fetched>>)
    /\ pc' = "loss"
    /\ UNCHANGED <<fn, n_batches, fetched, epoch, mode, writer, batch_targets,
                   targets, loss_target, predictions, tr_ret, otherVars>>

\* the two reshapes and loss_value = loss(outputs_reshaped, targets_reshaped)
TrainLoss ==
    /\ fn = "train_step" /\ pc = "loss"
    /\ loss_target' = targets_reshaped(targets)
    /\ events' = Append(events, <<"loss", fetched>>)
    /\ pc' = "backward"
    /\ UNCHANGED <<fn, n_batches, fetched, epoch, mode, writer, batch_targets,
                   targets, dec_input, predictions, tr_ret, otherVars>>

\* loss_value.backward()
TrainBackward ==
    /\ fn = "train_step" /\ pc = "backward"
    /\ events' = Append(events, <<"backward", fetched>>)
    /\ pc' = "step"
    /\ UNCHANGED <<fn, n_batches, fetched, epoch, mode, writer, batch_targets,
                   targets, dec_input, loss_target, predictions, tr_ret, otherVars>>

\* a variant without the call of optimizer.step()
TrainOptimizerStepMissing ==
    /\ fn = "train_step" /\ pc = "step"
    /\ pc' = "add_scalar"
    /\ UNCHANGED <<fn, n_batches, fetched, epoch, mode, events, writer, batch_targets,
                   targets, dec_input, loss_target, predictions, tr_ret, otherVars>>

\* optimizer.step()
TrainOptimizerStep ==
    /\ fn = "train_step" /\ pc = "step"
    /\ events' = Append(events, <<"step", fetched>>)
    /\ pc' = "add_scalar"
    /\ UNCHANGED <<fn, n_batches, fetched, epoch, mode, writer, batch_targets,
                   targets, dec_input, loss_target, predictions, tr_ret, otherVars>>

\* writer.add_scalar("Loss/train", loss_value.item(), epoch)
TrainAddScalar ==
    /\ fn = "train_step" /\ pc = "add_scalar"
    /\ events' = Append(events, <<"add_scalar", fetched>>)
    /\ writer' = Append(writer, <<"Loss/train", epoch>>)
    /\ PassEnds
    /\ pc' = "iter"
    /\ UNCHANGED <<fn, n_batches, fetched, epoch, mode, predictions, tr_ret, otherVars>>

\* ---- val_step ----
\* model.to(device); model.eval()
ValEnter ==
    /\ fn = "val_step" /\ pc = "start"
    /\ mode' = "eval"
    /\ pc' = "iter"
    /\ UNCHANGED <<fn, n_batches, fetched, epoch, events, writer, batch_targets,
                   targets, dec_input, loss_target, predictions, tr_ret, otherVars>>

\* the loop takes the next batch; to(device), float(), long()
ValFetch ==
    /\ fn = "val_step" /\ pc = "iter"
    /\ fetched < n_batches
    /\ \E batch \in Batches :
          /\ batch_targets' = batch
          /\ targets' = batch
    /\ fetched' = fetched + 1
    /\ pc' = "generate"
    /\ UNCHANGED <<fn, n_batches, epoch, mode, events, writer, dec_input, loss_target,
                   predictions, tr_ret, otherVars>>

\* the loader is exhausted: the function ends and returns None
ValExhausted ==
    /\ fn = "val_step" /\ pc = "iter"
    /\ fetched = n_batches
    /\ tr_ret' = "None"
    /\ pc' = "done"
    /\ UNCHANGED <<fn, n_batches, fetched, epoch, mode, events, writer, batch_targets,
                   targets, dec_input, loss_target, predictions, otherVars>>

\* a variant without the break
ValGenerateNoBreak ==
    /\ fn = "val_step" /\ pc = "generate"
    /\ events' = Append(events, <<"generate_caption", fetched, 0>>)
    /\ PassEnds
    /\ pc' = "iter"
    /\ UNCHANGED <<fn, n_batches, fetched, epoch, mode, writer, predictions, tr_ret,
                   otherVars>>

\* caption = model.generate_caption(inputs[0].unsqueeze(0), idx2_word); print;
\* break: the function ends and returns None
ValGenerate ==
    /\ fn = "val_step" /\ pc = "generate"
    /\ events' = Append(events, <<"generate_caption", fetched, 0>>)
    /\ tr_ret' = "None"
    /\ pc' = "done"
    /\ UNCHANGED <<fn, n_batches, fetched, epoch, mode, writer, batch_targets,
                   targets, dec_input, loss_target, predictions, otherVars>>

\* ---- t_step ----
\* model.to(device); model.eval(); predictions = []
TestEnter ==
    /\ fn = "t_step" /\ pc = "start"
    /\ mode' = "eval"
    /\ predictions' = <<>>
    /\ pc' = "iter"
    /\ UNCHANGED <<fn, n_batches, fetched, epoch, events, writer, batch_targets,
                   targets, dec_input, loss_target, tr_ret, otherVars>>

\* the loop takes the next batch; to(device), float()
TestFetch ==
    /\ fn = "t_step" /\ pc = "iter"
    /\ fetched < n_batches
    /\ \E batch \in Batches :
          /\ batch_targets' = batch
          /\ targets' = batch
    /\ fetched' = fetched + 1
    /\ pc' = "generate"
    /\ UNCHANGED <<fn, n_batches, epoch, mode, events, writer, dec_input, loss_target,
                   predictions, tr_ret, otherVars>>

\* captions = model.genera_captions(inputs[0].unsqueeze(0), idx2_word), whatever
\* iterable the model returns; predictions.extend(captions)
TestGenerate ==
    /\ fn = "t_step" /\ pc = "generate"
    /\ \E captions \in SeqsUpTo({"item"}, MaxGenerated) :
          predictions' = predictions \o captions
    /\ events' = Append(events, <<"genera_captions", fetched, 0>>)
    /\ PassEnds
    /\ pc' = "iter"
    /\ UNCHANGED <<fn, n_batches, fetched, epoch, mode, writer, tr_ret, otherVars>>

\* the loader is exhausted: the function body ends without a return statement
TestExhausted ==
    /\ fn = "t_step" /\ pc = "iter"
    /\ fetched = n_batches
    /\ tr_ret' = "None"
    /\ pc' = "done"
    /\ UNCHANGED <<fn, n_batches, fetched, epoch, mode, events, writer, batch_targets,
                   targets, dec_input, loss_target, predictions, otherVars>>

TrainNext ==
    \/ TrainEnter \/ TrainFetch \/ TrainExhausted \/ TrainZeroGrad \/ TrainForward
    \/ TrainLoss \/ TrainBackward \/ TrainOptimizerStep \/ TrainAddScalar
    \/ ValEnter \/ ValFetch \/ ValExhausted \/ ValGenerate
    \/ TestEnter \/ TestFetch \/ TestGenerate \/ TestExhausted

TrainSpec == TrainInit /\ [][TrainNext]_vars

\* the number of events of a kind
CountOp(op) == Cardinality({k \in DOMAIN events : events[k][1] = op})

BodyOrder == <<"zero_grad", "forward", "loss", "backward", "step", "add_scalar">>

\* C6: train_step over K batches makes K optimizer steps and writes K
\* "Loss/train" entries, all keyed by the epoch argument, and in every batch the
\* calls come in the order zero_grad, forward, loss, backward, step, add_scalar
TrainStepCounts ==
    fn = "train_step" =>
        /\ \A k \in DOMAIN events :
              events[k] = <<BodyOrder[((k - 1) % Len(BodyOrder)) + 1],
                            ((k - 1) \div Len(BodyOrder)) + 1>>
        /\ \A k \in DOMAIN writer : writer[k] = <<"Loss/train", epoch>>
        /\ Len(writer) = CountOp("add_scalar")
        /\ pc = "done" =>
              /\ CountOp("step") = n_batches
              /\ Len(writer) = n_batches
              /\ Len(events) = n_batches * Len(BodyOrder)

\* train_step has returned from a loader of two batches
TrainStepCountsWitness ==
    /\ fn = "train_step" /\ pc = "done"
    /\ n_batches = 2
    /\ CountOp("step") = 2
    /\ Len(writer) = 2

\* a second witness: the single-batch loader
TrainStepSingleBatch ==
    /\ fn = "train_step" /\ pc = "done"
    /\ n_batches = 1
    /\ CountOp("step") = 1
    /\ Len(writer) = 1

\* C7: t_step over K batches returns a sequence of exactly K captions
PredictReturnsK ==
    (fn = "t_step" /\ pc = "done") =>
        /\ tr_ret # "None"
        /\ Len(tr_ret) = n_batches

AfterLoss == fn = "train_step" /\ pc \in {"backward", "step", "add_scalar"}

\* C8 as stated: the model gets the target sequence without its final step and
\* the loss gets the target sequence without its first step, L-1 positions per
\* sample
LossOnShiftedTarget ==
    AfterLoss =>
        LET B == Len(batch_targets)
            L == Len(batch_targets[1])
        IN  /\ Len(dec_input) = L - 1
            /\ \A l \in 1..(L - 1) : \A b \in 1..B : dec_input[l][b] = batch_targets[b][l]
            /\ Len(loss_target) = (L - 1) * B
            /\ \A l \in 2..L : \A b \in 1..B :
                  loss_target[(l - 2) * B + b] = batch_targets[b][l]

\* C8 amended: the model gets the target sequence without its final step and
\* the loss gets the whole sequence-major target sequence, L positions per sample
LossOnFullTarget ==
    AfterLoss =>
        LET B == Len(batch_targets)
            L == Len(batch_targets[1])
        IN  /\ Len(dec_input) = L - 1
            /\ \A l \in 1..(L - 1) : \A b \in 1..B : dec_input[l][b] = batch_targets[b][l]
            /\ Len(loss_target) = L * B
            /\ \A l \in 1..L : \A b \in 1..B :
                  loss_target[(l - 1) * B + b] = batch_targets[b][l]

\* the loss of a batch of two samples with two-step targets has been computed
LossOnFullTargetWitness ==
    /\ AfterLoss
    /\ batch_targets = << <<0, 1>>, <<1, 1>> >>
    /\ dec_input = << <<0, 1>> >>
    /\ loss_target = <<0, 1, 1, 1>>

\* C9: val_step puts the model in evaluation mode, generates one caption, for
\* the first sample of the first batch, when there is a batch and none when
\* there is not, takes no batch after the first, writes nothing to the metric
\* sink and makes no backward pass or optimizer step
ValStepOnce ==
    fn = "val_step" =>
        /\ writer = <<>>
        /\ CountOp("step") = 0 /\ CountOp("backward") = 0
        /\ fetched <= 1
        /\ pc # "start" => mode = "eval"
        /\ pc = "done" =>
              /\ fetched = (IF n_batches >= 1 THEN 1 ELSE 0)
              /\ events = (IF n_batches >= 1
                           THEN << <<"generate_caption", 1, 0>> >>
                           ELSE <<>>)

\* val_step has returned from a loader of two batches
ValStepOnceWitness ==
    /\ fn = "val_step" /\ pc = "done"
    /\ n_batches = 2
    /\ fetched = 1
    /\ events = << <<"generate_caption", 1, 0>> >>

====
